---- MODULE Spec2Model ----
(***************************************************************************)
(* archivecli: URL validation -> archive lookup -> browser launch.         *)
(*                                                                         *)
(* Strings whose content the code inspects (URLs, domains) are sequences   *)
(* of one-character strings, so that urlparse, quote, lower and the        *)
(* substring tests are computed the way the code computes them.  Messages  *)
(* of exceptions are only compared for equality and stay TLA+ strings.     *)
(***************************************************************************)
EXTENDS Integers, Sequences, FiniteSets, TLC

----------------------------------------------------------------------------
(* Character classes and string helpers (Python str operations).           *)

LowerLetters ==
    {"a","b","c","d","e","f","g","h","i","j","k","l","m",
     "n","o","p","q","r","s","t","u","v","w","x","y","z"}

UpperLetters ==
    {"A","B","C","D","E","F","G","H","I","J","K","L","M",
     "N","O","P","Q","R","S","T","U","V","W","X","Y","Z"}

Digits == {"0","1","2","3","4","5","6","7","8","9"}

\* str.lower() on one character
LowerChar(c) ==
    CASE c = "A" -> "a" [] c = "B" -> "b" [] c = "C" -> "c" [] c = "D" -> "d"
      [] c = "E" -> "e" [] c = "F" -> "f" [] c = "G" -> "g" [] c = "H" -> "h"
      [] c = "I" -> "i" [] c = "J" -> "j" [] c = "K" -> "k" [] c = "L" -> "l"
      [] c = "M" -> "m" [] c = "N" -> "n" [] c = "O" -> "o" [] c = "P" -> "p"
      [] c = "Q" -> "q" [] c = "R" -> "r" [] c = "S" -> "s" [] c = "T" -> "t"
      [] c = "U" -> "u" [] c = "V" -> "v" [] c = "W" -> "w" [] c = "X" -> "x"
      [] c = "Y" -> "y" [] c = "Z" -> "z" [] OTHER -> c

\* str.lower()
lower(s) == [i \in 1..Len(s) |-> LowerChar(s[i])]

\* s[i:] with a 0-based Python index i
DropFirst(s, i) == SubSeq(s, i + 1, Len(s))

\* s[:i] with a 0-based Python index i
TakeFirst(s, i) == SubSeq(s, 1, i)

\* str.startswith
startswith(s, prefix) ==
    /\ Len(prefix) <= Len(s)
    /\ SubSeq(s, 1, Len(prefix)) = prefix

\* the Python "needle in hay" substring test
IsSubstring(needle, hay) ==
    \E i \in 1..(Len(hay) - Len(needle) + 1) :
        SubSeq(hay, i, i + Len(needle) - 1) = needle

\* does the character set cs meet the string s
ContainsAny(s, cs) == \E i \in 1..Len(s) : s[i] \in cs

\* 1-based position of the first character of s that lies in cs; Len(s)+1
\* when there is none
FirstIn(s, cs) ==
    IF ContainsAny(s, cs)
    THEN CHOOSE i \in 1..Len(s) :
            /\ s[i] \in cs
            /\ \A j \in 1..(i - 1) : s[j] \notin cs
    ELSE Len(s) + 1

----------------------------------------------------------------------------
(* urllib.parse.urlparse, restricted to the two components the code reads  *)
(* (scheme and netloc), and urllib.parse.quote with safe=''.  The strings  *)
(* are over letters, digits and the punctuation . : / ? # = % _ - + [ ] @  *)
(* and hold no whitespace or control characters, which urlsplit would      *)
(* strip first.                                                            *)

scheme_chars == LowerLetters \cup UpperLetters \cup Digits \cup {"+", "-", "."}

\* urlsplit takes url[:i] as the scheme when i = url.find(':') > 0, the
\* first character is a letter and every character before the colon is a
\* scheme character
HasScheme(u) ==
    LET i == FirstIn(u, {":"})
    IN  /\ i <= Len(u)
        /\ i > 1
        /\ u[1] \in LowerLetters \cup UpperLetters
        /\ \A j \in 1..(i - 1) : u[j] \in scheme_chars

\* the part of the url left after the scheme and its colon are removed
AfterScheme(u) ==
    IF HasScheme(u) THEN DropFirst(u, FirstIn(u, {":"})) ELSE u

\* the netloc before the bracket check: text between '//' and the first of
\* '/', '?', '#'
RawNetloc(u) ==
    LET rest == AfterScheme(u)
    IN  IF startswith(rest, <<"/", "/">>)
        THEN LET body == DropFirst(rest, 2)
             IN  TakeFirst(body, FirstIn(body, {"/", "?", "#"}) - 1)
        ELSE <<>>

\* urlsplit raises ValueError("Invalid IPv6 URL") on an unbalanced bracket
urlparse_raises(u) ==
    LET n == RawNetloc(u)
    IN  \/ (ContainsAny(n, {"["}) /\ ~ContainsAny(n, {"]"}))
        \/ (ContainsAny(n, {"]"}) /\ ~ContainsAny(n, {"["}))

\* urlparse(u): scheme (lowercased) and netloc; meaningful when
\* ~urlparse_raises(u)
urlparse(u) ==
    [scheme |-> IF HasScheme(u)
                THEN lower(TakeFirst(u, FirstIn(u, {":"}) - 1))
                ELSE <<>>,
     netloc |-> RawNetloc(u)]

\* characters quote() never encodes
Unreserved == LowerLetters \cup UpperLetters \cup Digits \cup {"_", ".", "-", "~"}

\* the two upper-case hex digits of the code point of a reserved character
HexOf(c) ==
    CASE c = ":" -> <<"3", "A">> [] c = "/" -> <<"2", "F">>
      [] c = "?" -> <<"3", "F">> [] c = "#" -> <<"2", "3">>
      [] c = "=" -> <<"3", "D">> [] c = "%" -> <<"2", "5">>
      [] c = "[" -> <<"5", "B">> [] c = "]" -> <<"5", "D">>
      [] c = "@" -> <<"4", "0">> [] c = "+" -> <<"2", "B">>
      [] c = "&" -> <<"2", "6">>

RECURSIVE quote(_)
\* quote(s, safe=''): every character outside Unreserved becomes %XX
quote(s) ==
    IF s = <<>> THEN <<>>
    ELSE (IF Head(s) \in Unreserved THEN <<Head(s)>>
          ELSE <<"%">> \o HexOf(Head(s))) \o quote(Tail(s))

----------------------------------------------------------------------------
(* String literals of the source and the URLs the model feeds it.          *)

BASE_URL == <<"h", "t", "t", "p", "s", ":", "/", "/", "a", "r", "c", "h", "i", "v", "e", ".", "i", "s", "/">>

SUBMIT_ENDPOINT == <<"s", "u", "b", "m", "i", "t", "/">>

s_url_query == <<"?", "u", "r", "l", "=">>

s_archive_is_slash == <<"a", "r", "c", "h", "i", "v", "e", ".", "i", "s", "/">>

s_www_dot == <<"w", "w", "w", ".">>

u_not_a_url == <<"n", "o", "t", "_", "a", "_", "u", "r", "l">>

u_example == <<"h", "t", "t", "p", "s", ":", "/", "/", "e", "x", "a", "m", "p", "l", "e", ".", "c", "o", "m">>

u_example_final == <<"h", "t", "t", "p", "s", ":", "/", "/", "e", "x", "a", "m", "p", "l", "e", ".", "c", "o", "m", "/", "f", "i", "n", "a", "l">>

u_ftp == <<"f", "t", "p", ":", "/", "/", "x", ".", "c", "o", "m">>

u_facebook == <<"h", "t", "t", "p", ":", "/", "/", "f", "a", "c", "e", "b", "o", "o", "k", ".", "c", "o", "m">>

u_www_facebook == <<"h", "t", "t", "p", "s", ":", "/", "/", "w", "w", "w", ".", "f", "a", "c", "e", "b", "o", "o", "k", ".", "c", "o", "m", "/", "x">>

u_no_netloc == <<"h", "t", "t", "p", ":", "/", "x", ".", "c", "o", "m">>

u_no_scheme == <<"/", "/", "x", ".", "c", "o", "m">>

u_upper == <<"H", "T", "T", "P", ":", "/", "/", "X", ".", "c", "o", "m">>

u_bracket == <<"h", "t", "t", "p", ":", "/", "/", "[", "a">>

u_archive_abc == <<"h", "t", "t", "p", "s", ":", "/", "/", "a", "r", "c", "h", "i", "v", "e", ".", "i", "s", "/", "a", "b", "c", "1", "2", "3">>

u_evil == <<"h", "t", "t", "p", "s", ":", "/", "/", "e", "v", "i", "l", ".", "c", "o", "m", "/", "a", "r", "c", "h", "i", "v", "e", ".", "i", "s", "/", "x">>

u_EXAMPLE == <<"h", "t", "t", "p", "s", ":", "/", "/", "E", "X", "A", "M", "P", "L", "E", ".", "C", "O", "M">>

u_www_example == <<"h", "t", "t", "p", "s", ":", "/", "/", "w", "w", "w", ".", "e", "x", "a", "m", "p", "l", "e", ".", "c", "o", "m">>

u_notfacebook == <<"h", "t", "t", "p", ":", "/", "/", "n", "o", "t", "f", "a", "c", "e", "b", "o", "o", "k", ".", "c", "o", "m">>

u_not_a_valid_url == <<"n", "o", "t", "-", "a", "-", "v", "a", "l", "i", "d", "-", "u", "r", "l">>

d_Example == <<"E", "x", "a", "m", "p", "l", "e", ".", "c", "o", "m">>

d_www_Example == <<"w", "w", "w", ".", "E", "x", "a", "m", "p", "l", "e", ".", "c", "o", "m">>

d_Test == <<"T", "e", "s", "t", ".", "c", "o", "m">>

d_x == <<"x", ".", "c", "o", "m">>

s_http == <<"h", "t", "t", "p">>

s_https == <<"h", "t", "t", "p", "s">>

d_facebook == <<"f", "a", "c", "e", "b", "o", "o", "k", ".", "c", "o", "m">>

d_twitter == <<"t", "w", "i", "t", "t", "e", "r", ".", "c", "o", "m">>

d_instagram == <<"i", "n", "s", "t", "a", "g", "r", "a", "m", ".", "c", "o", "m">>

d_linkedin == <<"l", "i", "n", "k", "e", "d", "i", "n", ".", "c", "o", "m">>

d_google == <<"a", "c", "c", "o", "u", "n", "t", "s", ".", "g", "o", "o", "g", "l", "e", ".", "c", "o", "m">>

d_yahoo == <<"l", "o", "g", "i", "n", ".", "y", "a", "h", "o", "o", ".", "c", "o", "m">>

----------------------------------------------------------------------------
(* Exceptions.  An exception is a record: its class, its fixed message     *)
(* text, the status code formatted into the message (0 when none) and the  *)
(* str() of a wrapped exception ("" when none).                            *)

Exc(c, m, n, d) == [cls |-> c, msg |-> m, code |-> n, detail |-> d]

NoExc == Exc("None", "", 0, "")

\* direct base classes.  validators.py, browser_handler.py and
\* domain_blocker.py define their own exception classes; they are not the
\* classes of the same name in exceptions.py.
Bases(c) ==
    CASE c = "validators.URLValidationError"          -> {"Exception"}
      [] c = "validators.URLReachabilityError"        -> {"Exception"}
      [] c = "domain_blocker.DomainBlockerError"      -> {"Exception"}
      [] c = "browser_handler.BrowserError"           -> {"Exception"}
      [] c = "exceptions.ArchiveCliError"             -> {"Exception"}
      [] c = "exceptions.URLError"                    -> {"exceptions.ArchiveCliError"}
      [] c = "exceptions.URLValidationError"          -> {"exceptions.URLError"}
      [] c = "exceptions.URLReachabilityError"        -> {"exceptions.URLError"}
      [] c = "exceptions.ArchiveServiceError"         -> {"exceptions.ArchiveCliError"}
      [] c = "exceptions.ArchiveNotFoundError"        -> {"exceptions.ArchiveServiceError"}
      [] c = "exceptions.ArchiveCreationError"        -> {"exceptions.ArchiveServiceError"}
      [] c = "exceptions.ArchiveServiceUnavailableError" -> {"exceptions.ArchiveServiceError"}
      [] c = "exceptions.BrowserError"                -> {"exceptions.ArchiveCliError"}
      [] c = "exceptions.ConfigurationError"          -> {"exceptions.ArchiveCliError"}
      [] c = "requests.RequestException"              -> {"OSError"}
      [] c = "requests.Timeout"                       -> {"requests.RequestException"}
      [] c = "requests.ConnectionError"               -> {"requests.RequestException"}
      [] c = "requests.TooManyRedirects"              -> {"requests.RequestException"}
      [] c = "requests.SSLError"                      -> {"requests.ConnectionError"}
      [] c = "requests.ConnectTimeout"                -> {"requests.ConnectionError", "requests.Timeout"}
      [] c = "requests.ReadTimeout"                   -> {"requests.Timeout"}
      [] c = "webbrowser.Error"                       -> {"Exception"}
      [] c = "OSError"                                -> {"Exception"}
      [] c = "RuntimeError"                           -> {"Exception"}
      [] c = "FileNotFoundError"                      -> {"OSError"}
      [] c = "ValueError"                             -> {"Exception"}
      [] c = "json.JSONDecodeError"                   -> {"ValueError"}
      [] c = "AttributeError"                         -> {"Exception"}
      [] c = "TypeError"                              -> {"Exception"}
      [] OTHER                                        -> {}

RECURSIVE Ancestors(_)
\* the class and all its direct and indirect bases
Ancestors(c) == {c} \cup UNION {Ancestors(b) : b \in Bases(c)}

\* isinstance(e, c): what an "except c" clause tests
IsInstance(e, c) == c \in Ancestors(e.cls)

----------------------------------------------------------------------------
(* Results of calls: either a raised exception or a returned value.  One   *)
(* record shape serves every function: url for a returned URL, flag for a  *)
(* returned boolean, msg for a returned message, code for an exit code.    *)

Result(r, e, u, f, m, n) ==
    [raised |-> r, exc |-> e, url |-> u, flag |-> f, msg |-> m, code |-> n]

Raise(e)        == Result(TRUE, e, <<>>, FALSE, "", 0)
ReturnUrl(u)    == Result(FALSE, NoExc, u, TRUE, "", 0)
ReturnPair(f, m, u) == Result(FALSE, NoExc, u, f, m, 0)
ReturnCode(n)   == Result(FALSE, NoExc, <<>>, FALSE, "", n)
NoResult        == Result(FALSE, NoExc, <<>>, FALSE, "", -1)

----------------------------------------------------------------------------
(* validators.py                                                           *)

is_valid_scheme(u) ==
    IF urlparse_raises(u) THEN FALSE
    ELSE urlparse(u).scheme \in {s_http, s_https}

is_well_formed_url(u) ==
    IF urlparse_raises(u) THEN FALSE
    ELSE urlparse(u).scheme # <<>> /\ urlparse(u).netloc # <<>>

\* reachability_body with the server-error test written "> 500"
reachability_body_gt500(u, o) ==
    IF o.err # "None" THEN Raise(Exc(o.err, "", 0, o.detail))
    ELSE IF o.status = 200 THEN ReturnUrl(o.url)
    ELSE IF o.status = 403
         THEN Raise(Exc("validators.URLReachabilityError", "Access forbidden", 0, ""))
    ELSE IF o.status = 404
         THEN Raise(Exc("validators.URLReachabilityError", "Page not found", 0, ""))
    ELSE IF o.status > 500
         THEN Raise(Exc("validators.URLReachabilityError", "Server error occurred", 0, ""))
    ELSE Raise(Exc("validators.URLReachabilityError", "Unexpected status code: ", o.status, ""))

\* the try body of check_url_reachability: o is what requests.head did,
\* a response (o.err = "None") or a raised requests exception
reachability_body(u, o) ==
    IF o.err # "None" THEN Raise(Exc(o.err, "", 0, o.detail))
    ELSE IF o.status = 200 THEN ReturnUrl(o.url)
    ELSE IF o.status = 403
         THEN Raise(Exc("validators.URLReachabilityError", "Access forbidden", 0, ""))
    ELSE IF o.status = 404
         THEN Raise(Exc("validators.URLReachabilityError", "Page not found", 0, ""))
    ELSE IF o.status >= 500
         THEN Raise(Exc("validators.URLReachabilityError", "Server error occurred", 0, ""))
    ELSE Raise(Exc("validators.URLReachabilityError", "Unexpected status code: ", o.status, ""))

\* reachability_except with the generic RequestException clause first
reachability_except_generic_first(e) ==
    IF IsInstance(e, "requests.RequestException")
    THEN Raise(Exc("validators.URLReachabilityError", "Request failed: ", 0, e.detail))
    ELSE IF IsInstance(e, "requests.Timeout")
    THEN Raise(Exc("validators.URLReachabilityError", "Request timed out", 0, ""))
    ELSE IF IsInstance(e, "requests.TooManyRedirects")
    THEN Raise(Exc("validators.URLReachabilityError", "Too many redirects", 0, ""))
    ELSE IF IsInstance(e, "requests.SSLError")
    THEN Raise(Exc("validators.URLReachabilityError", "SSL verification failed", 0, ""))
    ELSE Raise(e)

\* the except clauses of check_url_reachability, in source order; an
\* exception no clause names propagates unchanged
reachability_except(e) ==
    IF IsInstance(e, "requests.Timeout")
    THEN Raise(Exc("validators.URLReachabilityError", "Request timed out", 0, ""))
    ELSE IF IsInstance(e, "requests.TooManyRedirects")
    THEN Raise(Exc("validators.URLReachabilityError", "Too many redirects", 0, ""))
    ELSE IF IsInstance(e, "requests.SSLError")
    THEN Raise(Exc("validators.URLReachabilityError", "SSL verification failed", 0, ""))
    ELSE IF IsInstance(e, "requests.RequestException")
    THEN Raise(Exc("validators.URLReachabilityError", "Request failed: ", 0, e.detail))
    ELSE Raise(e)

check_url_reachability(u, o) ==
    LET r == reachability_body(u, o)
    IN  IF r.raised THEN reachability_except(r.exc) ELSE r

\* validators.validate_url(url)
validate_url(u) ==
    IF u = <<>>
    THEN Raise(Exc("validators.URLValidationError", "URL cannot be empty", 0, ""))
    ELSE IF ~is_valid_scheme(u)
    THEN Raise(Exc("validators.URLValidationError",
                   "URL must start with http:// or https://", 0, ""))
    ELSE IF ~is_well_formed_url(u)
    THEN Raise(Exc("validators.URLValidationError", "URL is not well-formed", 0, ""))
    ELSE ReturnUrl(u)

----------------------------------------------------------------------------
(* domain_blocker.py                                                       *)

DEFAULT_BLOCKED_DOMAINS ==
    {d_facebook, d_twitter, d_instagram, d_linkedin, d_google, d_yahoo}

\* is_domain_blocked that compares the domain with the entries for equality
is_domain_blocked_exact(bd, u) ==
    IF urlparse_raises(u)
    THEN Raise(Exc("domain_blocker.DomainBlockerError", "Failed to parse URL: ", 0,
                   "Invalid IPv6 URL"))
    ELSE LET netloc == lower(urlparse(u).netloc)
             domain == IF startswith(netloc, s_www_dot)
                       THEN DropFirst(netloc, 4) ELSE netloc
         IN  ReturnPair(domain \in bd, "", <<>>)

\* is_domain_blocked(url) on the blocked set bd
is_domain_blocked(bd, u) ==
    IF urlparse_raises(u)
    THEN Raise(Exc("domain_blocker.DomainBlockerError", "Failed to parse URL: ", 0,
                   "Invalid IPv6 URL"))
    ELSE LET netloc == lower(urlparse(u).netloc)
             domain == IF startswith(netloc, s_www_dot)
                       THEN DropFirst(netloc, 4) ELSE netloc
         IN  ReturnPair(\E blocked \in bd : IsSubstring(blocked, domain), "", <<>>)

\* the result of a DomainBlocker method: raised or not, and the blocked set
\* the blocker has afterwards
SetResult(r, e, s) == [raised |-> r, exc |-> e, set |-> s]

\* the elements of a list
Range(s) == {s[i] : i \in 1..Len(s)}

RECURSIVE SeqOf(_)
\* list(a_set): the elements of the set in one iteration order
SeqOf(S) ==
    IF S = {} THEN <<>>
    ELSE LET x == CHOOSE y \in S : TRUE
         IN  <<x>> \o SeqOf(S \ {x})

\* the same list in the opposite order
Reverse(s) == [i \in 1..Len(s) |-> s[Len(s) + 1 - i]]

\* The configuration file, as the JSON value json.load would see:
\*   "missing"        no file at config_path
\*   "invalid_json"   text that is not JSON
\*   "array"          a JSON array at top level
\*   "object_no_key"  an object without 'blocked_domains'
\*   "object_list"    an object whose 'blocked_domains' is a list of strings
\*   "object_number"  an object whose 'blocked_domains' is a number
\*   "object_nested"  an object whose 'blocked_domains' is a list of lists
\* domains is the list of strings of an "object_list"; origin tells whether
\* save_config or somebody else wrote the file.
Doc(k, ds, o) == [kind |-> k, domains |-> ds, origin |-> o]

MissingFile == Doc("missing", <<>>, "external")

\* what a caller holds after get_blocked_domains(): nothing yet, or a set
\* object; alias tells whether that object is the blocker's own set
NoSnapshot == [held |-> FALSE, alias |-> FALSE, value |-> {}]

\* add_blocked_domain that stores the domain as given
add_blocked_domain_verbatim(bd, d) == bd \cup {d}

\* add_blocked_domain(domain)
add_blocked_domain(bd, d) == bd \cup {lower(d)}

\* remove_blocked_domain written with set.discard: no error for a missing
\* domain
remove_blocked_domain_discard(bd, d) ==
    SetResult(FALSE, NoExc, bd \ {lower(d)})

\* remove_blocked_domain(domain): set.remove raises KeyError for a missing
\* element
remove_blocked_domain(bd, d) ==
    IF lower(d) \in bd
    THEN SetResult(FALSE, NoExc, bd \ {lower(d)})
    ELSE SetResult(TRUE,
                   Exc("domain_blocker.DomainBlockerError",
                       "Domain {domain} is not in the blocked list", 0, ""),
                   bd)

\* the try body of load_config on the file f
load_config_body(bd, f) ==
    CASE f.kind = "missing"       -> SetResult(TRUE, Exc("FileNotFoundError", "", 0, ""), bd)
      [] f.kind = "invalid_json"  -> SetResult(TRUE, Exc("json.JSONDecodeError", "", 0, ""), bd)
      [] f.kind = "array"         -> SetResult(TRUE, Exc("AttributeError", "", 0, ""), bd)
      [] f.kind = "object_no_key" -> SetResult(FALSE, NoExc, bd \cup {})
      [] f.kind = "object_list"   -> SetResult(FALSE, NoExc, bd \cup Range(f.domains))
      [] f.kind = "object_number" -> SetResult(TRUE, Exc("TypeError", "", 0, ""), bd)
      [] f.kind = "object_nested" -> SetResult(TRUE, Exc("TypeError", "", 0, ""), bd)

\* the except clause of load_config: (json.JSONDecodeError, IOError)
load_config_except(e, bd) ==
    IF IsInstance(e, "json.JSONDecodeError") \/ IsInstance(e, "OSError")
    THEN SetResult(TRUE,
                   Exc("domain_blocker.DomainBlockerError",
                       "Failed to load configuration: ", 0, e.cls),
                   bd)
    ELSE SetResult(TRUE, e, bd)

\* load_config that replaces the set by the file's domains
load_config_replace(bd, f) ==
    LET r == load_config_body({}, f)
    IN  IF r.raised THEN load_config_except(r.exc, bd) ELSE r

\* load_config(config_path)
load_config(bd, f) ==
    LET r == load_config_body(bd, f)
    IN  IF r.raised THEN load_config_except(r.exc, bd) ELSE r

\* DomainBlocker(config_path): the default set, then load_config when a
\* path is given
DomainBlocker_init(with_path, f) ==
    IF with_path THEN load_config(DEFAULT_BLOCKED_DOMAINS, f)
    ELSE SetResult(FALSE, NoExc, DEFAULT_BLOCKED_DOMAINS)

\* save_config(config_path) on the file f.  o is what the file system did:
\* "ok", "open_failed" (open raised IOError, the file is as before) or
\* "write_failed" (open truncated the file, then the write raised IOError);
\* order is the list list(self.blocked_domains) produced
save_config(bd, f, o, order) ==
    CASE o = "ok" ->
            [raised |-> FALSE, exc |-> NoExc,
             file |-> Doc("object_list", order, "save")]
      [] o = "open_failed" ->
            [raised |-> TRUE,
             exc |-> Exc("domain_blocker.DomainBlockerError",
                         "Failed to save configuration: ", 0, "OSError"),
             file |-> f]
      [] o = "write_failed" ->
            [raised |-> TRUE,
             exc |-> Exc("domain_blocker.DomainBlockerError",
                         "Failed to save configuration: ", 0, "OSError"),
             file |-> Doc("invalid_json", <<>>, "save")]

\* get_blocked_domains that returns self.blocked_domains itself
get_blocked_domains_shared(bd) == [held |-> TRUE, alias |-> TRUE, value |-> bd]

\* get_blocked_domains(): self.blocked_domains.copy()
get_blocked_domains(bd) == [held |-> TRUE, alias |-> FALSE, value |-> bd]

----------------------------------------------------------------------------
(* archive_service.py                                                      *)

\* urljoin(BASE_URL, ref) for a relative reference ref that has no scheme,
\* no netloc and no leading '/', against a base whose path is '/'
urljoin_base(ref) == BASE_URL \o ref

construct_search_url(u) ==
    LET encoded_url == quote(u)
    IN  urljoin_base(SUBMIT_ENDPOINT \o s_url_query \o encoded_url)

\* the try body of get_latest_archive: o is what requests.get did
latest_archive_body(u, o) ==
    LET search_url == construct_search_url(u)
    IN  IF o.err # "None" THEN Raise(Exc(o.err, "", 0, o.detail))
        ELSE IF o.status = 200
             THEN IF IsSubstring(s_archive_is_slash, o.url) /\ o.url # search_url
                  THEN ReturnUrl(o.url)
                  ELSE Raise(Exc("exceptions.ArchiveNotFoundError",
                                 "No archived version found", 0, ""))
        ELSE IF o.status = 404
             THEN Raise(Exc("exceptions.ArchiveNotFoundError",
                            "No archived version found", 0, ""))
        ELSE IF o.status >= 500
             THEN Raise(Exc("exceptions.ArchiveServiceUnavailableError",
                            "Archive.is service is temporarily unavailable. Please try again later.",
                            0, ""))
        ELSE Raise(Exc("exceptions.ArchiveServiceError",
                       "Received unexpected response from archive.is (status code: ",
                       o.status, ""))

\* latest_archive_except written "except Exception": it also catches the
\* ArchiveNotFoundError raised in the try body
latest_archive_except_broad(e) ==
    IF IsInstance(e, "Exception")
    THEN Raise(Exc("exceptions.ArchiveServiceError",
                   "Failed to communicate with archive.is: ", 0, e.detail))
    ELSE Raise(e)

\* the except clause of get_latest_archive
latest_archive_except(e) ==
    IF IsInstance(e, "requests.RequestException")
    THEN Raise(Exc("exceptions.ArchiveServiceError",
                   "Failed to communicate with archive.is: ", 0, e.detail))
    ELSE Raise(e)

get_latest_archive(u, o) ==
    LET r == latest_archive_body(u, o)
    IN  IF r.raised THEN latest_archive_except(r.exc) ELSE r

\* get_or_create_except written "except ArchiveServiceError"
get_or_create_except_broad(e) ==
    IF IsInstance(e, "exceptions.ArchiveServiceError")
    THEN Raise(Exc("exceptions.ArchiveCreationError",
                   "Archive creation is not yet implemented. Please try again later when this feature becomes available.",
                   0, ""))
    ELSE Raise(e)

\* the except clause of get_or_create_archive, applied to what
\* get_latest_archive raised
get_or_create_except(e) ==
    IF IsInstance(e, "exceptions.ArchiveNotFoundError")
    THEN Raise(Exc("exceptions.ArchiveCreationError",
                   "Archive creation is not yet implemented. Please try again later when this feature becomes available.",
                   0, ""))
    ELSE Raise(e)

----------------------------------------------------------------------------
(* browser_handler.py                                                      *)

\* browser_handler.validate_url
browser_validate_url(u) ==
    IF urlparse_raises(u) THEN FALSE
    ELSE urlparse(u).scheme # <<>> /\ urlparse(u).netloc # <<>>

\* does open_url_in_browser reach webbrowser.get() / browser.open()
browser_attempts(u) == browser_validate_url(u)

\* open_url_in_browser(url): o is what webbrowser.get().open(url, new=2)
\* did: "True", "False", or the class of the exception it raised
open_url_in_browser(u, o) ==
    IF ~browser_validate_url(u) THEN ReturnPair(FALSE, "Invalid URL format", <<>>)
    ELSE IF o = "True" THEN ReturnPair(TRUE, "URL opened successfully", <<>>)
    ELSE IF o = "False" THEN ReturnPair(FALSE, "Failed to open URL", <<>>)
    ELSE IF IsInstance(Exc(o, "", 0, ""), "webbrowser.Error")
         THEN Raise(Exc("browser_handler.BrowserError", "Browser error: ", 0, o))
    ELSE Raise(Exc("browser_handler.BrowserError", "Unexpected error opening URL: ", 0, o))

----------------------------------------------------------------------------
(* cli.py and archive.py: the except clauses of the two entry points.      *)

\* main_except with the ArchiveServiceError clause placed before the clauses
\* of its subclasses
main_except_base_first(e) ==
    IF IsInstance(e, "exceptions.URLValidationError") THEN ReturnCode(2)
    ELSE IF IsInstance(e, "exceptions.URLReachabilityError") THEN ReturnCode(3)
    ELSE IF IsInstance(e, "exceptions.ArchiveServiceError") THEN ReturnCode(7)
    ELSE IF IsInstance(e, "exceptions.ArchiveNotFoundError") THEN ReturnCode(4)
    ELSE IF IsInstance(e, "exceptions.ArchiveServiceUnavailableError") THEN ReturnCode(5)
    ELSE IF IsInstance(e, "exceptions.ArchiveCreationError") THEN ReturnCode(6)
    ELSE IF IsInstance(e, "exceptions.BrowserError") THEN ReturnCode(8)
    ELSE IF IsInstance(e, "exceptions.ConfigurationError") THEN ReturnCode(9)
    ELSE ReturnCode(1)

\* the except clauses of cli.main, in source order, as the exit code.  The
\* names URLValidationError, URLReachabilityError and BrowserError in cli.py
\* are the classes imported from exceptions.py.
main_except(e) ==
    IF IsInstance(e, "exceptions.URLValidationError") THEN ReturnCode(2)
    ELSE IF IsInstance(e, "exceptions.URLReachabilityError") THEN ReturnCode(3)
    ELSE IF IsInstance(e, "exceptions.ArchiveNotFoundError") THEN ReturnCode(4)
    ELSE IF IsInstance(e, "exceptions.ArchiveServiceUnavailableError") THEN ReturnCode(5)
    ELSE IF IsInstance(e, "exceptions.ArchiveCreationError") THEN ReturnCode(6)
    ELSE IF IsInstance(e, "exceptions.ArchiveServiceError") THEN ReturnCode(7)
    ELSE IF IsInstance(e, "exceptions.BrowserError") THEN ReturnCode(8)
    ELSE IF IsInstance(e, "exceptions.ConfigurationError") THEN ReturnCode(9)
    ELSE ReturnCode(1)

\* the except clauses of archive.archive_url: (False, str(e)) for the named
\* classes, (False, "An unexpected error occurred: " + str(e)) otherwise.
\* The returned record keeps e for the str(e) part of the message.
\* archive_url_except without the last clause "except Exception": a class
\* the other clauses do not name leaves archive_url
archive_url_except_named(e) ==
    IF \/ IsInstance(e, "exceptions.URLValidationError")
       \/ IsInstance(e, "exceptions.URLReachabilityError")
       \/ IsInstance(e, "exceptions.ArchiveServiceError")
       \/ IsInstance(e, "exceptions.BrowserError")
    THEN Result(FALSE, e, <<>>, FALSE, "", 0)
    ELSE Raise(e)

archive_url_except(e) ==
    IF \/ IsInstance(e, "exceptions.URLValidationError")
       \/ IsInstance(e, "exceptions.URLReachabilityError")
       \/ IsInstance(e, "exceptions.ArchiveServiceError")
       \/ IsInstance(e, "exceptions.BrowserError")
    THEN Result(FALSE, e, <<>>, FALSE, "", 0)
    ELSE Result(FALSE, e, <<>>, FALSE, "An unexpected error occurred: ", 0)

\* main_exit_after_open that ignores the success flag
main_exit_after_open_ignore(r) == ReturnCode(0)

\* the exit code main returns once open_url_in_browser returned r
main_exit_after_open(r) == IF ~r.flag THEN ReturnCode(1) ELSE ReturnCode(0)

\* the URL an entry point passes to get_latest_archive: main passes the
\* value validate_url_with_reachability returned, archive_url and the
\* direct calls pass their own argument
lookup_argument(e, u, validated) == IF e = "main" THEN validated ELSE u

----------------------------------------------------------------------------
(* The environment: what the network and the browser may answer.           *)

StatusCodes == {200, 204, 302, 403, 404, 499, 500, 503}

RequestsErrors ==
    {"requests.RequestException", "requests.Timeout", "requests.ConnectTimeout",
     "requests.ReadTimeout", "requests.TooManyRedirects", "requests.SSLError",
     "requests.ConnectionError"}

Response(s, u) == [err |-> "None", status |-> s, url |-> u, detail |-> ""]
Failure(c)     == [err |-> c, status |-> 0, url |-> <<>>, detail |-> "Custom error"]
NoOutcome      == [err |-> "None", status |-> 0, url |-> <<>>, detail |-> ""]

\* answers to requests.head(u): any status, final URL u or a redirect target
HeadOutcomes(u) ==
    {Response(s, f) : s \in StatusCodes, f \in {u, u_example_final}}
        \cup {Failure(c) : c \in RequestsErrors}

\* answers to requests.get(search_url): any status; final URL the search URL
\* itself, an archive page, a page on another host whose path contains
\* "archive.is/", or a page that has nothing to do with the archive
GetOutcomes(search_url) ==
    {Response(s, f) : s \in StatusCodes,
                      f \in {search_url, u_archive_abc, u_evil, u_example_final}}
        \cup {Failure(c) : c \in RequestsErrors}

\* answers of webbrowser.get().open(url, new=2)
OpenOutcomes == {"True", "False", "webbrowser.Error", "RuntimeError"}

InputURLs ==
    {u_not_a_url, u_example, u_ftp, u_facebook, u_www_facebook, u_no_netloc,
     u_no_scheme, u_upper, u_bracket, <<>>}

Entries ==
    {"main", "archive_url", "validate_url_with_reachability", "validate_url",
     "check_url_reachability", "get_latest_archive", "get_or_create_archive",
     "open_url_in_browser"}

----------------------------------------------------------------------------
(* State.                                                                  *)

VARIABLES
    pc,              \* position of the running call; "idle" between calls
    entry,           \* the function that was called from outside
    url,             \* its url argument
    domain_blocker,  \* TRUE when a DomainBlocker was passed, FALSE for None
    blocked_domains, \* DomainBlocker.blocked_domains
    checks,          \* the checks validate_url_with_reachability executed
    calls,           \* the external calls made: HEAD, GET, OPEN with the URL
    head_response,   \* what requests.head answered
    get_response,    \* what requests.get answered
    validated_url,   \* cli.main: validated_url
    archived_url,    \* cli.main: archive_url; archive.py: archived_url
    open_result,     \* the (success, message) open_url_in_browser returned
    exc,             \* the exception propagating out of the current callee
    ret,             \* what the entry point returned or raised
    domain,          \* the domain argument of add/remove_blocked_domain
    config_file,     \* the configuration file at config_path
    snapshot         \* the set a caller got from get_blocked_domains

vars == <<pc, entry, url, domain_blocker, blocked_domains, checks, calls,
          head_response, get_response, validated_url, archived_url,
          open_result, exc, ret, domain, config_file, snapshot>>

\* the state outside the DomainBlocker that only its operations touch
blocker_env == <<config_file, snapshot>>

Init ==
    /\ pc = "idle"
    /\ entry = "none"
    /\ url = <<>>
    /\ domain_blocker = FALSE
    /\ blocked_domains = DEFAULT_BLOCKED_DOMAINS
    /\ checks = <<>>
    /\ calls = <<>>
    /\ head_response = NoOutcome
    /\ get_response = NoOutcome
    /\ validated_url = <<>>
    /\ archived_url = <<>>
    /\ open_result = NoResult
    /\ exc = NoExc
    /\ ret = NoResult
    /\ domain = <<>>
    /\ config_file = MissingFile
    /\ snapshot = NoSnapshot

\* a call from outside: every local of the previous call is gone
Enter(e, u, b, start) ==
    /\ pc = "idle"
    /\ pc' = start
    /\ entry' = e
    /\ url' = u
    /\ domain_blocker' = b
    /\ checks' = <<>>
    /\ calls' = <<>>
    /\ head_response' = NoOutcome
    /\ get_response' = NoOutcome
    /\ validated_url' = <<>>
    /\ archived_url' = <<>>
    /\ open_result' = NoResult
    /\ exc' = NoExc
    /\ ret' = NoResult
    /\ UNCHANGED <<blocked_domains, domain, blocker_env>>

\* cli.main([u]): main calls validate_url_with_reachability(args.url)
Call_main(u) ==
    /\ Enter("main", u, FALSE, "v_format")

\* archive.archive_url(u)
Call_archive_url(u) ==
    /\ Enter("archive_url", u, FALSE, "v_format")

\* validators.validate_url_with_reachability(u, domain_blocker=b)
Call_validate_url_with_reachability(u, b) ==
    /\ Enter("validate_url_with_reachability", u, b, "v_format")

\* validators.validate_url(u): no call goes out, the function returns or
\* raises at once
Call_validate_url(u) ==
    /\ pc = "idle"
    /\ pc' = "done"
    /\ entry' = "validate_url"
    /\ url' = u
    /\ ret' = validate_url(u)
    /\ UNCHANGED <<domain_blocker, blocked_domains, checks, calls,
                   head_response, get_response, validated_url, archived_url,
                   open_result, exc, domain, blocker_env>>

\* validators.check_url_reachability(u)
Call_check_url_reachability(u) ==
    /\ Enter("check_url_reachability", u, FALSE, "v_probe")

\* ArchiveService().get_latest_archive(u)
Call_get_latest_archive(u) ==
    /\ Enter("get_latest_archive", u, FALSE, "lookup")

\* ArchiveService().get_or_create_archive(u)
Call_get_or_create_archive(u) ==
    /\ Enter("get_or_create_archive", u, FALSE, "lookup")

\* browser_handler.open_url_in_browser(u)
Call_open_url_in_browser(u) ==
    /\ Enter("open_url_in_browser", u, FALSE, "open")

\* an exception leaves the current callee
Throw(e) ==
    /\ pc' = "raised"
    /\ exc' = e

\* the entry point returns r (or raises r.exc) to the outside
Finish(r) ==
    /\ pc' = "done"
    /\ ret' = r

----------------------------------------------------------------------------
(* validators.validate_url_with_reachability, one action per statement.    *)

\* validate_check_format without its raise: an ill-formed URL falls through
\* to the scheme check
validate_check_format_fallthrough ==
    /\ pc = "v_format"
    /\ checks' = Append(checks, "format")
    /\ pc' = "v_scheme"
    /\ UNCHANGED <<domain, blocker_env,
                   entry, url, domain_blocker, blocked_domains, calls,
                   head_response, get_response, validated_url, archived_url,
                   open_result, exc, ret>>

\* if not is_well_formed_url(url): raise URLValidationError(...)
validate_check_format ==
    /\ pc = "v_format"
    /\ checks' = Append(checks, "format")
    /\ IF ~is_well_formed_url(url)
       THEN Throw(Exc("validators.URLValidationError", "Invalid URL format", 0, ""))
       ELSE pc' = "v_scheme" /\ UNCHANGED exc
    /\ UNCHANGED <<domain, blocker_env,
                   entry, url, domain_blocker, blocked_domains, calls,
                   head_response, get_response, validated_url, archived_url,
                   open_result, ret>>

\* validate_check_scheme placed after the probe: the request goes out and
\* the scheme error is raised afterwards
validate_check_scheme_late ==
    /\ pc = "v_scheme"
    /\ checks' = Append(checks, "scheme")
    /\ calls' = IF ~is_valid_scheme(url)
                THEN Append(calls, [fn |-> "HEAD", url |-> url]) ELSE calls
    /\ IF ~is_valid_scheme(url)
       THEN Throw(Exc("validators.URLValidationError",
                      "URL must start with http:// or https://", 0, ""))
       ELSE pc' = "v_block" /\ UNCHANGED exc
    /\ UNCHANGED <<domain, blocker_env,
                   entry, url, domain_blocker, blocked_domains,
                   head_response, get_response, validated_url, archived_url,
                   open_result, ret>>

\* if not is_valid_scheme(url): raise URLValidationError(...)
validate_check_scheme ==
    /\ pc = "v_scheme"
    /\ checks' = Append(checks, "scheme")
    /\ IF ~is_valid_scheme(url)
       THEN Throw(Exc("validators.URLValidationError",
                      "URL must start with http:// or https://", 0, ""))
       ELSE pc' = "v_block" /\ UNCHANGED exc
    /\ UNCHANGED <<domain, blocker_env,
                   entry, url, domain_blocker, blocked_domains, calls,
                   head_response, get_response, validated_url, archived_url,
                   open_result, ret>>

\* if domain_blocker and domain_blocker.is_domain_blocked(url): raise ...
validate_check_blocked ==
    /\ pc = "v_block"
    /\ IF ~domain_blocker
       THEN /\ pc' = "v_probe"
            /\ UNCHANGED <<checks, exc>>
       ELSE LET r == is_domain_blocked(blocked_domains, url)
            IN  /\ checks' = Append(checks, "blocklist")
                /\ IF r.raised THEN Throw(r.exc)
                   ELSE IF r.flag
                   THEN Throw(Exc("validators.URLValidationError",
                                  "Domain is blocked", 0, ""))
                   ELSE pc' = "v_probe" /\ UNCHANGED exc
    /\ UNCHANGED <<domain, blocker_env,
                   entry, url, domain_blocker, blocked_domains, calls,
                   head_response, get_response, validated_url, archived_url,
                   open_result, ret>>

\* final_url, reachable = check_url_reachability(url, timeout), and what the
\* caller does with the value: validate_url_with_reachability returns
\* final_url; cli.main stores it in validated_url; archive.archive_url
\* discards it; a direct call of check_url_reachability returns the pair
probe ==
    /\ pc = "v_probe"
    /\ \E o \in HeadOutcomes(url) :
        LET r == check_url_reachability(url, o)
        IN  /\ calls' = Append(calls, [fn |-> "HEAD", url |-> url])
            /\ checks' = Append(checks, "probe")
            /\ head_response' = o
            /\ pc' = IF r.raised THEN "raised"
                     ELSE IF entry \in {"main", "archive_url"} THEN "lookup"
                     ELSE "done"
            /\ exc' = IF r.raised THEN r.exc ELSE exc
            /\ validated_url' = IF ~r.raised /\ entry = "main"
                                THEN r.url ELSE validated_url
            /\ ret' = IF r.raised \/ entry \in {"main", "archive_url"} THEN ret
                      ELSE IF entry = "check_url_reachability"
                      THEN ReturnPair(TRUE, "", r.url)
                      ELSE ReturnUrl(r.url)
    /\ UNCHANGED <<domain, blocker_env,
                   entry, url, domain_blocker, blocked_domains, get_response,
                   archived_url, open_result>>

----------------------------------------------------------------------------
(* ArchiveService.get_latest_archive and its callers.                      *)

lookup ==
    /\ pc = "lookup"
    /\ LET arg == lookup_argument(entry, url, validated_url)
           search_url == construct_search_url(arg)
       IN  \E o \in GetOutcomes(search_url) :
            LET r == get_latest_archive(arg, o)
            IN  /\ calls' = Append(calls, [fn |-> "GET", url |-> search_url])
                /\ get_response' = o
                /\ pc' = IF r.raised THEN "raised"
                         ELSE IF entry \in {"main", "archive_url"} THEN "open"
                         ELSE "done"
                /\ exc' = IF r.raised THEN r.exc ELSE exc
                /\ archived_url' = IF ~r.raised /\ entry \in {"main", "archive_url"}
                                   THEN r.url ELSE archived_url
                /\ ret' = IF r.raised \/ entry \in {"main", "archive_url"} THEN ret
                          ELSE ReturnUrl(r.url)
    /\ UNCHANGED <<domain, blocker_env,
                   entry, url, domain_blocker, blocked_domains, checks,
                   head_response, validated_url, open_result>>

----------------------------------------------------------------------------
(* browser_handler.open_url_in_browser and its callers.                    *)

\* the URL passed to open_url_in_browser
open_argument == IF entry = "open_url_in_browser" THEN url ELSE archived_url

\* browser_open that tries a second time when the browser reports failure
browser_open_retry ==
    /\ pc = "open"
    /\ \E o \in (IF browser_attempts(open_argument) THEN OpenOutcomes ELSE {"None"}) :
        LET r == open_url_in_browser(open_argument, o)
            attempt == [fn |-> "OPEN", url |-> open_argument]
        IN  /\ calls' = IF ~browser_attempts(open_argument) THEN calls
                        ELSE IF o = "False" THEN calls \o <<attempt, attempt>>
                        ELSE Append(calls, attempt)
            /\ pc' = IF r.raised THEN "raised"
                     ELSE IF entry = "open_url_in_browser" THEN "done"
                     ELSE "opened"
            /\ exc' = IF r.raised THEN r.exc ELSE exc
            /\ open_result' = IF r.raised THEN open_result ELSE r
            /\ ret' = IF ~r.raised /\ entry = "open_url_in_browser" THEN r ELSE ret
    /\ UNCHANGED <<domain, blocker_env,
                   entry, url, domain_blocker, blocked_domains, checks,
                   head_response, get_response, validated_url, archived_url>>

browser_open ==
    /\ pc = "open"
    /\ \E o \in (IF browser_attempts(open_argument) THEN OpenOutcomes ELSE {"None"}) :
        LET r == open_url_in_browser(open_argument, o)
        IN  /\ calls' = IF browser_attempts(open_argument)
                        THEN Append(calls, [fn |-> "OPEN", url |-> open_argument])
                        ELSE calls
            /\ pc' = IF r.raised THEN "raised"
                     ELSE IF entry = "open_url_in_browser" THEN "done"
                     ELSE "opened"
            /\ exc' = IF r.raised THEN r.exc ELSE exc
            /\ open_result' = IF r.raised THEN open_result ELSE r
            /\ ret' = IF ~r.raised /\ entry = "open_url_in_browser" THEN r ELSE ret
    /\ UNCHANGED <<domain, blocker_env,
                   entry, url, domain_blocker, blocked_domains, checks,
                   head_response, get_response, validated_url, archived_url>>

\* cli.main: if not success: return 1; else return 0
main_after_open ==
    /\ pc = "opened"
    /\ entry = "main"
    /\ Finish(main_exit_after_open(open_result))
    /\ UNCHANGED <<domain, blocker_env,
                   entry, url, domain_blocker, blocked_domains, checks, calls,
                   head_response, get_response, validated_url, archived_url,
                   open_result, exc>>

\* archive.archive_url: if success: return True, ...; else: raise BrowserError
archive_url_after_open ==
    /\ pc = "opened"
    /\ entry = "archive_url"
    /\ IF open_result.flag
       THEN /\ Finish(Result(FALSE, NoExc, archived_url, TRUE,
                             "Successfully opened archived version: ", 0))
            /\ UNCHANGED exc
       ELSE /\ Throw(Exc("exceptions.BrowserError", "Failed to open browser: ",
                         0, open_result.msg))
            /\ UNCHANGED ret
    /\ UNCHANGED <<domain, blocker_env,
                   entry, url, domain_blocker, blocked_domains, checks, calls,
                   head_response, get_response, validated_url, archived_url,
                   open_result>>

----------------------------------------------------------------------------
(* What each entry point does with an exception raised below it.           *)

\* main_handler that retries the failed network call once instead of exiting
main_handler_retry ==
    /\ pc = "raised"
    /\ entry = "main"
    /\ IF Len(calls) = 1
       THEN pc' = "v_probe" /\ UNCHANGED ret
       ELSE Finish(main_except(exc))
    /\ UNCHANGED <<domain, blocker_env,
                   entry, url, domain_blocker, blocked_domains, checks, calls,
                   head_response, get_response, validated_url, archived_url,
                   open_result, exc>>

main_handler ==
    /\ pc = "raised"
    /\ entry = "main"
    /\ Finish(main_except(exc))
    /\ UNCHANGED <<domain, blocker_env,
                   entry, url, domain_blocker, blocked_domains, checks, calls,
                   head_response, get_response, validated_url, archived_url,
                   open_result, exc>>

archive_url_handler ==
    /\ pc = "raised"
    /\ entry = "archive_url"
    /\ Finish(archive_url_except(exc))
    /\ UNCHANGED <<domain, blocker_env,
                   entry, url, domain_blocker, blocked_domains, checks, calls,
                   head_response, get_response, validated_url, archived_url,
                   open_result, exc>>

get_or_create_handler ==
    /\ pc = "raised"
    /\ entry = "get_or_create_archive"
    /\ Finish(get_or_create_except(exc))
    /\ UNCHANGED <<domain, blocker_env,
                   entry, url, domain_blocker, blocked_domains, checks, calls,
                   head_response, get_response, validated_url, archived_url,
                   open_result, exc>>

\* the functions without a try block of their own let it through
propagate ==
    /\ pc = "raised"
    /\ entry \in {"validate_url_with_reachability", "check_url_reachability",
                  "get_latest_archive", "open_url_in_browser"}
    /\ Finish(Raise(exc))
    /\ UNCHANGED <<domain, blocker_env,
                   entry, url, domain_blocker, blocked_domains, checks, calls,
                   head_response, get_response, validated_url, archived_url,
                   open_result, exc>>

\* the caller has the result; the next call may start
Return ==
    /\ pc = "done"
    /\ pc' = "idle"
    /\ entry' = "none"
    /\ url' = <<>>
    /\ domain_blocker' = FALSE
    /\ checks' = <<>>
    /\ calls' = <<>>
    /\ head_response' = NoOutcome
    /\ get_response' = NoOutcome
    /\ validated_url' = <<>>
    /\ archived_url' = <<>>
    /\ open_result' = NoResult
    /\ exc' = NoExc
    /\ ret' = NoResult
    /\ domain' = <<>>
    /\ UNCHANGED <<blocked_domains, blocker_env>>

Next ==
    \/ \E u \in InputURLs : Call_main(u)
    \/ \E u \in InputURLs : Call_archive_url(u)
    \/ \E u \in InputURLs, b \in BOOLEAN : Call_validate_url_with_reachability(u, b)
    \/ \E u \in InputURLs : Call_validate_url(u)
    \/ \E u \in InputURLs : Call_check_url_reachability(u)
    \/ \E u \in InputURLs : Call_get_latest_archive(u)
    \/ \E u \in InputURLs : Call_get_or_create_archive(u)
    \/ \E u \in InputURLs : Call_open_url_in_browser(u)
    \/ validate_check_format
    \/ validate_check_scheme
    \/ validate_check_blocked
    \/ probe
    \/ lookup
    \/ browser_open
    \/ main_after_open
    \/ archive_url_after_open
    \/ main_handler
    \/ archive_url_handler
    \/ get_or_create_handler
    \/ propagate
    \/ Return

Spec == Init /\ [][Next]_vars

----------------------------------------------------------------------------
(* DomainBlocker: one action per method call, made between the calls of    *)
(* the pipeline.  The caller keeps one blocker, may keep one set returned  *)
(* by get_blocked_domains, and there is one configuration file.            *)

\* the arguments the model passes to add_ and remove_blocked_domain
DomainArgs == {d_Example, d_www_Example, d_facebook}

\* the arguments the model passes to is_domain_blocked
BlockerURLs ==
    {u_example, u_EXAMPLE, u_www_example, u_facebook, u_www_facebook,
     u_notfacebook, u_not_a_valid_url, u_bracket}

\* the files somebody other than save_config may have put at config_path
ExternalDocs ==
    {MissingFile,
     Doc("invalid_json", <<>>, "external"),
     Doc("array", <<>>, "external"),
     Doc("object_no_key", <<>>, "external"),
     Doc("object_list", <<d_Test>>, "external"),
     Doc("object_number", <<>>, "external"),
     Doc("object_nested", <<>>, "external")}

\* what the file system may do to save_config
SaveOutcomes == {"ok", "open_failed", "write_failed"}

\* the locals of the pipeline, untouched by the DomainBlocker methods
pipeline_state ==
    <<domain_blocker, checks, calls, head_response, get_response,
      validated_url, archived_url, open_result, exc>>

\* a method that returns None
ReturnNone == Result(FALSE, NoExc, <<>>, FALSE, "", 0)

\* the returned set after the blocker's set became bd: the same object
\* shows the change, a copy does not
FollowAlias(s, bd) == IF s.alias THEN [s EXCEPT !.value = bd] ELSE s

\* a method call that ran to its end: e the method, u and d its arguments,
\* r what it returned or raised, bd, f and s the blocked set, the file and
\* the returned set afterwards
BlockerCall(e, u, d, r, bd, f, s) ==
    /\ pc = "idle"
    /\ pc' = "done"
    /\ entry' = e
    /\ url' = u
    /\ domain' = d
    /\ ret' = r
    /\ blocked_domains' = bd
    /\ config_file' = f
    /\ snapshot' = s
    /\ UNCHANGED pipeline_state

\* blocker.is_domain_blocked(u)
Call_is_domain_blocked(u) ==
    /\ BlockerCall("is_domain_blocked", u, <<>>,
                   is_domain_blocked(blocked_domains, u),
                   blocked_domains, config_file, snapshot)

\* blocker.add_blocked_domain(d)
Call_add_blocked_domain(d) ==
    LET bd == add_blocked_domain(blocked_domains, d)
    IN  /\ BlockerCall("add_blocked_domain", <<>>, d, ReturnNone,
                       bd, config_file, FollowAlias(snapshot, bd))

\* blocker.remove_blocked_domain(d)
Call_remove_blocked_domain(d) ==
    LET r == remove_blocked_domain(blocked_domains, d)
    IN  /\ BlockerCall("remove_blocked_domain", <<>>, d,
                       IF r.raised THEN Raise(r.exc) ELSE ReturnNone,
                       r.set, config_file, FollowAlias(snapshot, r.set))

\* blocker.load_config(config_path)
Call_load_config ==
    LET r == load_config(blocked_domains, config_file)
    IN  /\ BlockerCall("load_config", <<>>, <<>>,
                       IF r.raised THEN Raise(r.exc) ELSE ReturnNone,
                       r.set, config_file, FollowAlias(snapshot, r.set))

\* blocker = DomainBlocker() or DomainBlocker(config_path): when the
\* constructor raises, the caller keeps the blocker it had; a set returned
\* by the old blocker is not the new blocker's set
Call_DomainBlocker(with_path) ==
    LET r == DomainBlocker_init(with_path, config_file)
    IN  /\ BlockerCall("DomainBlocker", <<>>, <<>>,
                       IF r.raised THEN Raise(r.exc) ELSE ReturnNone,
                       IF r.raised THEN blocked_domains ELSE r.set,
                       config_file,
                       IF r.raised THEN snapshot
                       ELSE [snapshot EXCEPT !.alias = FALSE])

\* blocker.save_config(config_path)
Call_save_config ==
    \E o \in SaveOutcomes :
    \E order \in {SeqOf(blocked_domains), Reverse(SeqOf(blocked_domains))} :
        LET r == save_config(blocked_domains, config_file, o, order)
        IN  /\ BlockerCall("save_config", <<>>, <<>>,
                           IF r.raised THEN Raise(r.exc) ELSE ReturnNone,
                           blocked_domains, r.file, snapshot)

\* s = blocker.get_blocked_domains()
Call_get_blocked_domains ==
    /\ BlockerCall("get_blocked_domains", <<>>, <<>>, ReturnNone,
                   blocked_domains, config_file,
                   get_blocked_domains(blocked_domains))

\* the caller adds an element to the set it got: s.add('x.com')
caller_mutates_snapshot ==
    /\ pc = "idle"
    /\ snapshot.held
    /\ d_x \notin snapshot.value
    /\ snapshot' = [snapshot EXCEPT !.value = snapshot.value \cup {d_x}]
    /\ blocked_domains' = IF snapshot.alias THEN snapshot.value \cup {d_x}
                          ELSE blocked_domains
    /\ UNCHANGED <<pc, entry, url, domain, ret, config_file, pipeline_state>>

\* somebody else writes, replaces or deletes the configuration file
external_write(doc) ==
    /\ pc = "idle"
    /\ doc # config_file
    /\ config_file' = doc
    /\ UNCHANGED <<pc, entry, url, domain, ret, blocked_domains, snapshot,
                   pipeline_state>>

BlockerNext ==
    \/ \E u \in BlockerURLs : Call_is_domain_blocked(u)
    \/ \E d \in DomainArgs : Call_add_blocked_domain(d)
    \/ \E d \in DomainArgs : Call_remove_blocked_domain(d)
    \/ Call_load_config
    \/ \E b \in BOOLEAN : Call_DomainBlocker(b)
    \/ Call_save_config
    \/ Call_get_blocked_domains
    \/ caller_mutates_snapshot
    \/ \E doc \in ExternalDocs : external_write(doc)
    \/ Return

BlockerSpec == Init /\ [][BlockerNext]_vars

----------------------------------------------------------------------------
(* Properties.                                                             *)

\* the functions of the calls made so far, in order
CallFns == [i \in 1..Len(calls) |-> calls[i].fn]

IsPrefix(s, t) == Len(s) <= Len(t) /\ SubSeq(t, 1, Len(s)) = s

\* the entry points that run validate_url_with_reachability
ValidatingEntries == {"main", "archive_url", "validate_url_with_reachability"}

\* the probe answered 200
ProbeSucceeded == head_response.err = "None" /\ head_response.status = 200

\* does the named check of the validation pipeline pass in this state
CheckPasses(c) ==
    CASE c = "format"    -> is_well_formed_url(url)
      [] c = "scheme"    -> is_valid_scheme(url)
      [] c = "blocklist" -> ~is_domain_blocked(blocked_domains, url).flag
      [] c = "probe"     -> ProbeSucceeded

\* does the exception e report the failure of the named check
ReportsCheck(e, c) ==
    CASE c = "format"    -> e.cls = "validators.URLValidationError"
                            /\ e.msg = "Invalid URL format"
      [] c = "scheme"    -> e.cls = "validators.URLValidationError"
                            /\ e.msg = "URL must start with http:// or https://"
      [] c = "blocklist" -> e.cls = "validators.URLValidationError"
                            /\ e.msg = "Domain is blocked"
      [] c = "probe"     -> e.cls = "validators.URLReachabilityError"

\* the order of the checks for this call
CheckOrder ==
    IF domain_blocker THEN <<"format", "scheme", "blocklist", "probe">>
    ELSE <<"format", "scheme", "probe">>

\* validation has raised and nothing after it has run
ValidationRaised ==
    /\ entry \in ValidatingEntries
    /\ pc = "raised"
    /\ Len(calls) <= 1
    /\ get_response = NoOutcome

\* C1: validate_url_with_reachability runs format, scheme, blocklist (only
\* with a blocker), probe in this order; a check that fails is the last one
\* executed, every check before it passed, and the exception raised is the
\* one of that check.
C1_ChecksInOrderShortCircuit ==
    entry \in ValidatingEntries =>
        /\ IsPrefix(checks, CheckOrder)
        /\ \A i \in 1..Len(checks) : ~CheckPasses(checks[i]) => i = Len(checks)
        /\ ValidationRaised =>
              /\ checks # <<>>
              /\ ~CheckPasses(checks[Len(checks)])
              /\ ReportsCheck(exc, checks[Len(checks)])
        /\ (entry = "validate_url_with_reachability" /\ pc = "done" /\ ret.raised) =>
              ReportsCheck(ret.exc, checks[Len(checks)])

\* C1 witness: a URL failing both the format and the scheme check was
\* rejected after the format check alone, with the format error
C1_Witness ==
    /\ entry = "validate_url_with_reachability"
    /\ pc = "done"
    /\ ret.raised
    /\ ~is_well_formed_url(url)
    /\ ~is_valid_scheme(url)
    /\ checks = <<"format">>
    /\ ret.exc.msg = "Invalid URL format"

\* the URL is rejected by one of the three checks that need no network
InputRejected ==
    \/ ~is_well_formed_url(url)
    \/ ~is_valid_scheme(url)
    \/ (domain_blocker /\ ~urlparse_raises(url)
          /\ is_domain_blocked(blocked_domains, url).flag)

\* C2: a call whose URL is ill-formed, has a scheme other than http/https
\* or is blocked makes no HEAD, GET or OPEN call at any point and ends in
\* failure with the validation error; a run in which the validation error
\* is raised has made no external call.
C2_InputErrorNoNetwork ==
    entry \in ValidatingEntries =>
        /\ InputRejected =>
              /\ calls = <<>>
              /\ head_response = NoOutcome /\ get_response = NoOutcome
              /\ pc \notin {"v_probe", "lookup", "open", "opened"}
              /\ pc = "raised" => exc.cls = "validators.URLValidationError"
              /\ (pc = "done" /\ entry = "validate_url_with_reachability") =>
                    ret.raised /\ ret.exc.cls = "validators.URLValidationError"
              /\ (pc = "done" /\ entry = "main") => ret.code # 0
              /\ (pc = "done" /\ entry = "archive_url") => ~ret.flag
        /\ (pc \in {"raised", "done"} /\ exc.cls = "validators.URLValidationError") =>
              calls = <<>>

\* C2 witness: a blocked URL was rejected by the blocklist check and no
\* call was made
C2_Witness ==
    /\ entry = "validate_url_with_reachability"
    /\ domain_blocker
    /\ pc = "done"
    /\ ret.raised
    /\ ret.exc.msg = "Domain is blocked"
    /\ calls = <<>>

\* the lookup answered 200 with the URL of an archive page
LookupFound ==
    /\ get_response.err = "None"
    /\ get_response.status = 200
    /\ archived_url = get_response.url
    /\ archived_url # <<>>

\* C3: in cli.main the external calls are a prefix of HEAD, GET, OPEN: each
\* at most once, the GET only after the probe answered 200, the OPEN only
\* after the lookup returned an archive URL, nothing after a failure.
C3_CallsInOrderAtMostOnce ==
    entry = "main" =>
        /\ IsPrefix(CallFns, <<"HEAD", "GET", "OPEN">>)
        /\ Len(calls) >= 2 => ProbeSucceeded
        /\ Len(calls) >= 3 => LookupFound
        /\ pc = "lookup" => Len(calls) = 1
        /\ pc = "open" => Len(calls) = 2

\* C3 witness: main finished after all three calls
C3_Witness ==
    /\ entry = "main"
    /\ pc = "done"
    /\ CallFns = <<"HEAD", "GET", "OPEN">>

\* C4: main returns 0 exactly when the probe succeeded, the lookup returned
\* an archive URL and open_url_in_browser returned success; the browser was
\* then opened with the URL the lookup returned.
C4_ExitZeroIffAllSucceeded ==
    (entry = "main" /\ pc = "done") =>
        /\ ret.code = 0 <=>
              /\ ProbeSucceeded
              /\ LookupFound
              /\ CallFns = <<"HEAD", "GET", "OPEN">>
              /\ open_result.flag
        /\ ret.code = 0 =>
              calls[3] = [fn |-> "OPEN", url |-> get_response.url]

\* C4 witness: main returned 0 and the input URL, the post-redirect URL and
\* the archive URL are three different URLs
C4_Witness ==
    /\ entry = "main"
    /\ pc = "done"
    /\ ret.code = 0
    /\ validated_url # url
    /\ get_response.url # validated_url
    /\ get_response.url # url
    /\ calls[3].url = get_response.url

\* the host of the archive service, the netloc of BASE_URL
ArchiveHost == urlparse(BASE_URL).netloc

\* C5: the URL handed to get_latest_archive is the post-redirect URL the
\* probe reported, in cli.main and in archive.archive_url: the GET goes to
\* the search URL built from it.
C5_LookupGetsFinalUrl ==
    (entry \in {"main", "archive_url"} /\ Len(calls) >= 2) =>
        calls[2] = [fn |-> "GET", url |-> construct_search_url(head_response.url)]

\* C6: when get_latest_archive returns a URL, the status was 200, the URL
\* is the response's final location, it is not the search URL and its host
\* is the archive service's host.
C6_SuccessOnArchiveHost ==
    (entry = "get_latest_archive" /\ pc = "done" /\ ~ret.raised) =>
        /\ get_response.err = "None"
        /\ get_response.status = 200
        /\ ret.url = get_response.url
        /\ ret.url # construct_search_url(url)
        /\ urlparse(ret.url).netloc = ArchiveHost

\* the class and message get_latest_archive raises
NotFoundRaised(e) ==
    e.cls = "exceptions.ArchiveNotFoundError" /\ e.msg = "No archived version found"

UnavailableRaised(e) == e.cls = "exceptions.ArchiveServiceUnavailableError"

UnexpectedRaised(e, s) ==
    /\ e.cls = "exceptions.ArchiveServiceError"
    /\ e.msg = "Received unexpected response from archive.is (status code: "
    /\ e.code = s

CommunicationRaised(e, d) ==
    /\ e.cls = "exceptions.ArchiveServiceError"
    /\ e.msg = "Failed to communicate with archive.is: "
    /\ e.detail = d

\* C7: get_latest_archive raises NotFound for 200 with the search URL as
\* final location and for 404, ServiceUnavailable for a status >= 500, the
\* unexpected-response error with the code for every other status, and the
\* communication-failure error for a requests exception; a NotFound is
\* never turned into a communication failure.
C7_LookupErrorClassification ==
    (entry = "get_latest_archive" /\ pc = "done") =>
        LET o == get_response
            s == o.status
        IN  /\ o.err # "None" => ret.raised /\ CommunicationRaised(ret.exc, o.detail)
            /\ (o.err = "None" /\ s = 200 /\ o.url = construct_search_url(url)) =>
                  ret.raised /\ NotFoundRaised(ret.exc)
            /\ (o.err = "None" /\ s = 404) => ret.raised /\ NotFoundRaised(ret.exc)
            /\ (o.err = "None" /\ s >= 500) => ret.raised /\ UnavailableRaised(ret.exc)
            /\ (o.err = "None" /\ s # 200 /\ s # 404 /\ s < 500) =>
                  ret.raised /\ UnexpectedRaised(ret.exc, s)
            /\ (ret.raised /\ o.err = "None") =>
                  ret.exc.msg # "Failed to communicate with archive.is: "

\* C7 witness: a 200 answer that stayed on the search URL was reported as
\* NotFound
C7_Witness ==
    /\ entry = "get_latest_archive"
    /\ pc = "done"
    /\ get_response.err = "None"
    /\ get_response.status = 200
    /\ get_response.url = construct_search_url(url)
    /\ ret.raised
    /\ ret.exc.cls = "exceptions.ArchiveNotFoundError"

\* C8: get_or_create_archive returns the URL of a successful lookup
\* unchanged, raises ArchiveCreationError after a NotFound without a second
\* request, and lets every other lookup error through unchanged.
C8_GetOrCreate ==
    (entry = "get_or_create_archive" /\ pc = "done") =>
        LET inner == get_latest_archive(url, get_response)
        IN  /\ CallFns = <<"GET">>
            /\ ~inner.raised => ret = ReturnUrl(inner.url)
            /\ (inner.raised /\ inner.exc.cls = "exceptions.ArchiveNotFoundError") =>
                  ret.raised /\ ret.exc.cls = "exceptions.ArchiveCreationError"
            /\ (inner.raised /\ inner.exc.cls # "exceptions.ArchiveNotFoundError") =>
                  ret = Raise(inner.exc)

\* C8 witness: a ServiceUnavailable lookup error came out of
\* get_or_create_archive as it was
C8_Witness ==
    /\ entry = "get_or_create_archive"
    /\ pc = "done"
    /\ ret.raised
    /\ ret.exc.cls = "exceptions.ArchiveServiceUnavailableError"

\* the URLReachabilityError with message m
ReachabilityRaised(r, m) ==
    /\ r.raised
    /\ r.exc.cls = "validators.URLReachabilityError"
    /\ r.exc.msg = m

\* C9: check_url_reachability returns (response.url, True) for status 200
\* and for no other status; 403, 404, >= 500 and every other status raise
\* access-forbidden, page-not-found, server-error and unexpected-status
\* with the code.
C9_StatusMapping ==
    (entry = "check_url_reachability" /\ pc = "done" /\ head_response.err = "None") =>
        LET s == head_response.status
        IN  /\ s = 200 => ret = ReturnPair(TRUE, "", head_response.url)
            /\ s = 403 => ReachabilityRaised(ret, "Access forbidden")
            /\ s = 404 => ReachabilityRaised(ret, "Page not found")
            /\ s >= 500 => ReachabilityRaised(ret, "Server error occurred")
            /\ (s \notin {200, 403, 404} /\ s < 500) =>
                  ReachabilityRaised(ret, "Unexpected status code: ") /\ ret.exc.code = s
            /\ ~ret.raised => s = 200

\* C9 witness: a 200 answer after a redirect returned the final URL
C9_Witness ==
    /\ entry = "check_url_reachability"
    /\ pc = "done"
    /\ head_response.status = 200
    /\ head_response.url # url
    /\ ~ret.raised
    /\ ret.url = head_response.url

\* the messages of the errors derived from a status code
StatusMessages ==
    {"Access forbidden", "Page not found", "Server error occurred",
     "Unexpected status code: "}

\* C10: a requests exception raised by the probe becomes one
\* URLReachabilityError: timed-out for a Timeout, too-many-redirects for
\* TooManyRedirects, SSL-verification-failed for an SSLError, and the
\* generic request-failed error with the detail only for the others; an
\* error derived from a status code keeps its own message.
C10_TransportMapping ==
    (entry = "check_url_reachability" /\ pc = "done") =>
        LET c == head_response.err
        IN  /\ c \in {"requests.Timeout", "requests.ConnectTimeout", "requests.ReadTimeout"} =>
                  ReachabilityRaised(ret, "Request timed out")
            /\ c = "requests.TooManyRedirects" =>
                  ReachabilityRaised(ret, "Too many redirects")
            /\ c = "requests.SSLError" =>
                  ReachabilityRaised(ret, "SSL verification failed")
            /\ c \in {"requests.RequestException", "requests.ConnectionError"} =>
                  /\ ReachabilityRaised(ret, "Request failed: ")
                  /\ ret.exc.detail = head_response.detail
            /\ (c = "None" /\ ret.raised) =>
                  /\ ret.exc.cls = "validators.URLReachabilityError"
                  /\ ret.exc.msg \in StatusMessages

\* C10 witness: a connect timeout, which is both a ConnectionError and a
\* Timeout, was reported as timed out
C10_Witness ==
    /\ entry = "check_url_reachability"
    /\ pc = "done"
    /\ head_response.err = "requests.ConnectTimeout"
    /\ ret.raised
    /\ ret.exc.msg = "Request timed out"


\* main has returned after its validation step failed
MainValidationFailed ==
    /\ entry = "main"
    /\ pc = "done"
    /\ get_response = NoOutcome
    /\ Len(calls) <= 1

\* C11: when validate_url_with_reachability fails in main, main returns 2
\* for its invalid-URL error and 3 for its reachability error, and neither
\* the lookup nor the browser was called.
C11_ValidationExitCodes ==
    MainValidationFailed =>
        /\ exc.cls = "validators.URLValidationError" => ret.code = 2
        /\ exc.cls = "validators.URLReachabilityError" => ret.code = 3
        /\ \A i \in 1..Len(calls) : calls[i].fn = "HEAD"

\* main has returned after the browser launch failed: open_url_in_browser
\* raised its BrowserError or returned (False, message)
MainLaunchFailed ==
    /\ entry = "main"
    /\ pc = "done"
    /\ archived_url # <<>>
    /\ \/ exc.cls = "browser_handler.BrowserError"
       \/ (open_result # NoResult /\ ~open_result.flag)

\* C12: every browser launch failure makes main return 8.
C12_LaunchFailureExitCode ==
    MainLaunchFailed => ret.code = 8

\* main has returned after get_latest_archive raised
MainLookupFailed ==
    /\ entry = "main"
    /\ pc = "done"
    /\ CallFns = <<"HEAD", "GET">>
    /\ exc # NoExc

\* the exception classes of exceptions.py below ArchiveServiceError
ArchiveSubclasses ==
    {"exceptions.ArchiveNotFoundError", "exceptions.ArchiveServiceUnavailableError",
     "exceptions.ArchiveCreationError"}

\* C13: a failed lookup makes main return 4 for NotFound, 5 for
\* ServiceUnavailable, 6 for creation-not-implemented and 7 only for an
\* ArchiveServiceError that is none of the three; the browser is not
\* called.  The class of the propagating exception decides, so the clause
\* for 6 is stated on the handler itself: get_latest_archive never raises
\* ArchiveCreationError.
C13_LookupExitCodes ==
    /\ MainLookupFailed =>
          /\ exc.cls = "exceptions.ArchiveNotFoundError" => ret.code = 4
          /\ exc.cls = "exceptions.ArchiveServiceUnavailableError" => ret.code = 5
          /\ exc.cls = "exceptions.ArchiveServiceError" => ret.code = 7
          /\ ret.code = 7 => exc.cls \notin ArchiveSubclasses
          /\ ret.code \in {4, 5, 7}
          /\ open_result = NoResult
    /\ (entry = "main" /\ pc = "raised") =>
          main_except(Exc("exceptions.ArchiveCreationError", "", 0, "")).code = 6

\* C13 witness: the lookup answered 503 and main returned 5
C13_Witness ==
    /\ MainLookupFailed
    /\ get_response.status = 503
    /\ exc.cls = "exceptions.ArchiveServiceUnavailableError"
    /\ ret.code = 5


\* the host (netloc) of a URL, lowercased and without one leading "www."
StrippedHost(u) ==
    LET h == lower(urlparse(u).netloc)
    IN  IF startswith(h, s_www_dot) THEN DropFirst(h, 4) ELSE h

\* is_domain_blocked(url) has returned or raised
BlockedChecked == entry = "is_domain_blocked" /\ pc = "done"

\* C14: is_domain_blocked returns true iff some entry of the blocked set is
\* a substring of the lowercased host without its leading "www."; a host
\* that contains facebook.com is blocked, and with the default set the two
\* facebook URLs are blocked and https://example.com is not.
C14_BlockedIffSubstring ==
    (BlockedChecked /\ ~ret.raised) =>
        /\ ret.flag <=> \E b \in blocked_domains : IsSubstring(b, StrippedHost(url))
        /\ (url = u_notfacebook /\ d_facebook \in blocked_domains) => ret.flag
        /\ (url \in {u_www_facebook, u_facebook}
              /\ blocked_domains = DEFAULT_BLOCKED_DOMAINS) => ret.flag
        /\ (url = u_example /\ blocked_domains = DEFAULT_BLOCKED_DOMAINS) => ~ret.flag

\* C14 witness: http://notfacebook.com was reported blocked by the entry
\* facebook.com
C14_Witness ==
    /\ BlockedChecked
    /\ url = u_notfacebook
    /\ ~ret.raised
    /\ ret.flag

\* C15: while the lowercased form of a domain d passed to
\* add_blocked_domain is in the set, is_domain_blocked returns true for
\* every URL whose host equals d without regard to letter case.
C15_AddedDomainBlocksItsHost ==
    BlockedChecked =>
        \A d \in DomainArgs :
            (/\ add_blocked_domain(blocked_domains, d) = blocked_domains
             /\ ~urlparse_raises(url)
             /\ lower(urlparse(url).netloc) = lower(d))
                => (~ret.raised /\ ret.flag)

\* no host can be extracted from the URL: urlparse fails or the netloc is
\* empty
NoHost(u) == urlparse_raises(u) \/ urlparse(u).netloc = <<>>

\* C16: for a URL without an extractable host is_domain_blocked raises
\* DomainBlockerError "Failed to parse URL" and returns no boolean.
C16_NoHostRaises ==
    (BlockedChecked /\ NoHost(url)) =>
        /\ ret.raised
        /\ ret.exc.cls = "domain_blocker.DomainBlockerError"
        /\ ret.exc.msg = "Failed to parse URL: "

\* C17: remove_blocked_domain(d) raises the not-in-list error and leaves
\* the set as it was when lower(d) is not in the set; otherwise it returns
\* and the set loses lower(d) and nothing else.
C17_RemoveExactlyOne ==
    [][(pc = "idle" /\ entry' = "remove_blocked_domain") =>
          IF lower(domain') \in blocked_domains
          THEN /\ ~ret'.raised
               /\ blocked_domains' = blocked_domains \ {lower(domain')}
          ELSE /\ ret'.raised
               /\ ret'.exc.cls = "domain_blocker.DomainBlockerError"
               /\ ret'.exc.msg = "Domain {domain} is not in the blocked list"
               /\ blocked_domains' = blocked_domains]_vars

\* C17 witness: removing Example.com, whose lowercased form was not in the
\* set, raised and the default set is still there
C17_Witness ==
    /\ entry = "remove_blocked_domain"
    /\ pc = "done"
    /\ domain = d_Example
    /\ ret.raised
    /\ blocked_domains = DEFAULT_BLOCKED_DOMAINS


\* the file cannot be read, is not JSON, or is not an object with a list of
\* strings under 'blocked_domains'
IllShaped(f) ==
    f.kind \in {"missing", "invalid_json", "array", "object_number", "object_nested"}

\* C18: load_config on a file that cannot be read or has not the expected
\* shape raises DomainBlockerError, never another exception, and leaves
\* the blocked set as it was.
C18_LoadFailsWithConfigError ==
    [][(pc = "idle" /\ entry' = "load_config" /\ IllShaped(config_file)) =>
          /\ ret'.raised
          /\ ret'.exc.cls = "domain_blocker.DomainBlockerError"
          /\ blocked_domains' = blocked_domains]_vars

\* the file is what a successful save_config wrote
SavedFile(f) == f.origin = "save" /\ f.kind = "object_list"

\* C19: a successful save_config writes exactly the blocked set; loading
\* that file gives the receiving blocker its own set united with the saved
\* one, so a fresh blocker ends with the saved set united with the default
\* seed, and get_blocked_domains returns that set; no load removes an
\* entry.
C19_RoundTripAdditive ==
    [][/\ (pc = "idle" /\ entry' = "save_config" /\ ~ret'.raised) =>
             (SavedFile(config_file') /\ Range(config_file'.domains) = blocked_domains)
       /\ (pc = "idle" /\ entry' = "load_config" /\ SavedFile(config_file)) =>
             /\ ~ret'.raised
             /\ blocked_domains' = blocked_domains \cup Range(config_file.domains)
             /\ blocked_domains = DEFAULT_BLOCKED_DOMAINS =>
                   blocked_domains' = Range(config_file.domains) \cup DEFAULT_BLOCKED_DOMAINS
       /\ (pc = "idle" /\ entry' = "DomainBlocker" /\ SavedFile(config_file)) =>
             /\ ~ret'.raised
             /\ blocked_domains' \in
                   {DEFAULT_BLOCKED_DOMAINS,
                    Range(config_file.domains) \cup DEFAULT_BLOCKED_DOMAINS}
       /\ (pc = "idle" /\ entry' = "load_config") =>
             blocked_domains \subseteq blocked_domains'
       /\ (pc = "idle" /\ entry' = "get_blocked_domains") =>
             snapshot'.value = blocked_domains]_vars

\* C19 witness: a set without facebook.com and with example.com was saved,
\* and a blocker holding the default seed loaded it: facebook.com is there
\* again, next to example.com
C19_Witness ==
    /\ entry = "load_config"
    /\ pc = "done"
    /\ ~ret.raised
    /\ SavedFile(config_file)
    /\ d_facebook \notin Range(config_file.domains)
    /\ lower(d_Example) \in Range(config_file.domains)
    /\ blocked_domains = Range(config_file.domains) \cup DEFAULT_BLOCKED_DOMAINS

\* C20: a call of add_, remove_blocked_domain, load_config, save_config,
\* is_domain_blocked or the constructor leaves the set that
\* get_blocked_domains returned earlier as it was; a change the caller
\* makes to that set leaves the blocker's set, and so the result of
\* is_domain_blocked for every URL, as it was.
C20_SnapshotIndependent ==
    [][/\ (pc = "idle" /\ pc' = "done" /\ entry' # "get_blocked_domains") =>
             snapshot'.value = snapshot.value
       /\ (pc = "idle" /\ pc' = "idle") =>
             /\ blocked_domains' = blocked_domains
             /\ \A u \in BlockerURLs :
                   is_domain_blocked(blocked_domains', u)
                       = is_domain_blocked(blocked_domains, u)
       /\ (pc = "idle" /\ entry' = "get_blocked_domains") =>
             /\ snapshot'.held
             /\ snapshot'.value = blocked_domains
             /\ blocked_domains' = blocked_domains]_vars

\* C20 witness: the caller added x.com to the returned set, the blocker
\* got example.com afterwards, and neither change shows in the other set
C20_Witness ==
    /\ BlockedChecked
    /\ snapshot.held
    /\ d_x \in snapshot.value
    /\ d_x \notin blocked_domains
    /\ lower(d_Example) \in blocked_domains
    /\ lower(d_Example) \notin snapshot.value


\* the two composed validators of validators.py
ComposedValidators == {"validate_url", "validate_url_with_reachability"}

\* C21: for an input that fails both the well-formedness check and the
\* scheme check, validate_url and validate_url_with_reachability raise
\* with the message "Invalid URL format", never with the scheme message.
C21_FormatWinsBeforeScheme ==
    (/\ pc = "done"
     /\ entry \in ComposedValidators
     /\ ~is_well_formed_url(url)
     /\ ~is_valid_scheme(url)) =>
        /\ ret.raised
        /\ ret.exc.msg = "Invalid URL format"
        /\ ret.exc.msg # "URL must start with http:// or https://"


\* the string contains no uppercase letter
IsLowercase(s) == s = lower(s)

\* C22: every entry of the blocked set is lowercase in every reachable
\* state, and is_domain_blocked, get_blocked_domains and save_config leave
\* the set as it was.
C22_EntriesLowercase ==
    /\ [](\A b \in blocked_domains : IsLowercase(b))
    /\ [][(pc = "idle" /\ entry' \in {"is_domain_blocked", "get_blocked_domains",
                                      "save_config"}) =>
             blocked_domains' = blocked_domains]_vars


\* the browser-open attempts among the calls made so far
OpenAttempts == {i \in 1..Len(calls) : calls[i].fn = "OPEN"}

\* the URL has no scheme or no host
LacksSchemeOrHost(u) ==
    \/ urlparse_raises(u)
    \/ urlparse(u).scheme = <<>>
    \/ urlparse(u).netloc = <<>>

\* C23: no call makes more than one browser-open attempt.  When
\* open_url_in_browser has ended: for a URL without scheme or host it
\* returned (False, "Invalid URL format") and made no attempt; otherwise it
\* made one attempt with that URL, a reported failure gave
\* (False, "Failed to open URL"), and an exception gave BrowserError with
\* the message of the exception appended to "Browser error: " or
\* "Unexpected error opening URL: ".
C23_OneOpenAttempt ==
    /\ Cardinality(OpenAttempts) <= 1
    /\ (entry = "open_url_in_browser" /\ pc = "done") =>
          IF LacksSchemeOrHost(url)
          THEN /\ ~ret.raised
               /\ ~ret.flag
               /\ ret.msg = "Invalid URL format"
               /\ OpenAttempts = {}
          ELSE /\ calls = <<[fn |-> "OPEN", url |-> url]>>
               /\ ret.raised =>
                     /\ ret.exc.cls = "browser_handler.BrowserError"
                     /\ ret.exc.msg \in {"Browser error: ",
                                         "Unexpected error opening URL: "}
                     /\ ret.exc.detail \in OpenOutcomes \ {"True", "False"}
                     /\ ret.exc.msg = "Browser error: "
                           <=> IsInstance(Exc(ret.exc.detail, "", 0, ""),
                                          "webbrowser.Error")
               /\ (~ret.raised /\ ~ret.flag) => ret.msg = "Failed to open URL"
               /\ (~ret.raised /\ ret.flag) => ret.msg = "URL opened successfully"

\* C23 witness: the one attempt reported failure and open_url_in_browser
\* returned (False, "Failed to open URL")
C23_Witness ==
    /\ entry = "open_url_in_browser"
    /\ pc = "done"
    /\ ~LacksSchemeOrHost(url)
    /\ ~ret.raised
    /\ ~ret.flag
    /\ ret.msg = "Failed to open URL"
    /\ Cardinality(OpenAttempts) = 1


\* the exception classes the except clauses of archive_url name
ArchiveUrlNamed ==
    {"exceptions.URLValidationError", "exceptions.URLReachabilityError",
     "exceptions.ArchiveServiceError", "exceptions.BrowserError"}

====
